---- MODULE Spec2Model ----
(***************************************************************************)
(* Model of the stoic library (src/index.js, first definition of Stoic,    *)
(* StoicError, StoicObject and StoicArray, lines 25-367), and of its       *)
(* predecessors StaticObject (src/StaticObject.js) and StaticArray.         *)
(*                                                                         *)
(* The JavaScript heap is a sequence of objects; an object's identity is   *)
(* its index.  A value is a primitive or a reference to a heap object.     *)
(* A call either returns a value or throws; a throw is a result whose st   *)
(* field names the error class and whose msg field holds its message.      *)
(* iters holds the generators the caller obtained from sequences.          *)
(***************************************************************************)
EXTENDS Integers, Sequences, FiniteSets, TLC

VARIABLES heap, root, phase, op, arg, args, res, events, iters

vars == <<heap, root, phase, op, arg, args, res, events, iters>>

(***************************************************************************)
(* Bounds of the model.                                                    *)
(***************************************************************************)
\* Total number of property slots (fields, elements, causes) of the source graph.
MaxSlots == 2
\* Number of source objects the caller allocates.
MaxObj == 3

(***************************************************************************)
(* Values.                                                                 *)
(***************************************************************************)
Undef == [t |-> "undefined", n |-> 0, s |-> ""]
Null == [t |-> "null", n |-> 0, s |-> ""]
Num(k) == [t |-> "number", n |-> k, s |-> ""]
Str(x) == [t |-> "string", n |-> 0, s |-> x]
Ref(i) == [t |-> "ref", n |-> i, s |-> ""]

IsRef(v) == v.t = "ref"

\* Number.prototype.toString for the array indices that occur in paths.
ToStr(i) == <<"0", "1", "2", "3", "4", "5", "6", "7", "8", "9">>[i + 1]

(***************************************************************************)
(* Heap objects.  kind is the class of the object (what                    *)
(* Object.prototype.toString reports between "[object " and "]"); keys and *)
(* vals are the own properties in insertion order (for an array: vals are  *)
(* the elements); ikeys and ivals are the enumerable properties inherited  *)
(* from a prototype other than the built-in one; prim is the primitive     *)
(* inside a Date, RegExp or wrapper object (for an array iterator: the     *)
(* object it iterates).                                                    *)
(***************************************************************************)
Obj(kind, keys, vals, ikeys, ivals, name, message, stack, prim, frozen) ==
  [kind |-> kind, keys |-> keys, vals |-> vals, ikeys |-> ikeys, ivals |-> ivals,
   name |-> name, message |-> message, stack |-> stack, prim |-> prim,
   frozen |-> frozen]

StoicKinds == {"StoicObject", "StoicArray", "StoicError"}

\* The global Object constructor, a function object present in every realm,
\* is the one object of the heap before the caller allocates any.
ObjectCtor == Obj("Function", <<>>, <<>>, <<>>, <<>>, "Object", "", "", Undef, FALSE)
Realm == <<ObjectCtor>>
ObjectCtorId == Len(Realm)

\* What the caller can allocate: new K(...) with no properties set yet.
NewObject(kind) ==
  CASE kind = "Error" -> Obj("Error", <<>>, <<>>, <<>>, <<>>, "Error", "bad", "Error: bad", Undef, FALSE)
    [] kind = "RangeError" -> Obj("Error", <<>>, <<>>, <<>>, <<>>, "RangeError", "worse", "RangeError: worse", Undef, FALSE)
    [] kind = "Derived" -> Obj("Object", <<>>, <<>>, <<"inherited">>, <<Num(7)>>, "", "", "", Undef, FALSE)
    [] kind = "Function" -> Obj("Function", <<>>, <<>>, <<>>, <<>>, "f", "", "", Undef, FALSE)
    [] kind = "Date" -> Obj("Date", <<>>, <<>>, <<>>, <<>>, "", "", "", Num(86400), FALSE)
    [] kind = "RegExp" -> Obj("RegExp", <<>>, <<>>, <<>>, <<>>, "", "", "", Str("ab+c"), FALSE)
    [] kind = "Number" -> Obj("Number", <<>>, <<>>, <<>>, <<>>, "", "", "", Num(5), FALSE)
    [] OTHER -> Obj(kind, <<>>, <<>>, <<>>, <<>>, "", "", "", Undef, FALSE)

\* typeof
TypeOf(h, v) ==
  IF IsRef(v) THEN (IF h[v.n].kind = "Function" THEN "function" ELSE "object")
  ELSE IF v.t = "null" THEN "object" ELSE v.t

\* Object.prototype.toString.call(v), without the "[object " and "]".
Tag(h, v) ==
  IF IsRef(v) THEN h[v.n].kind
  ELSE CASE v.t = "undefined" -> "Undefined"
         [] v.t = "null" -> "Null"
         [] v.t = "number" -> "Number"
         [] v.t = "string" -> "String"
         [] OTHER -> "Object"

\* key in obj, for an own or inherited enumerable key
HasKey(o, k) == (\E i \in 1..Len(o.keys) : o.keys[i] = k) \/ (\E i \in 1..Len(o.ikeys) : o.ikeys[i] = k)
OwnIndex(o, k) == CHOOSE i \in 1..Len(o.keys) : o.keys[i] = k
HasOwn(o, k) == \E i \in 1..Len(o.keys) : o.keys[i] = k
\* obj[k]
Get(o, k) ==
  IF HasOwn(o, k) THEN o.vals[OwnIndex(o, k)]
  ELSE IF \E i \in 1..Len(o.ikeys) : o.ikeys[i] = k
       THEN o.ivals[CHOOSE i \in 1..Len(o.ikeys) : o.ikeys[i] = k]
       ELSE Undef

RECURSIVE SelectKeys(_, _)
\* the keys of ks that are not own keys of o
SelectKeys(o, ks) ==
  IF ks = <<>> THEN <<>>
  ELSE (IF HasOwn(o, Head(ks)) THEN <<>> ELSE <<Head(ks)>>) \o SelectKeys(o, Tail(ks))

\* The keys a for-in loop visits: own enumerable keys in insertion order,
\* then the inherited enumerable keys that are not shadowed.
ForInKeys(o) == o.keys \o SelectKeys(o, o.ikeys)

\* The labels of an array's indices 0 .. n-1 as they appear in a path.
IndexLabels(n) == [i \in 1..n |-> ToStr(i - 1)]

(***************************************************************************)
(* Results of calls.                                                       *)
(***************************************************************************)
Ok(v, h, ev, seen) == [st |-> "ok", msg |-> "", val |-> v, vals |-> <<>>, h |-> h, ev |-> ev, seen |-> seen]
OkSeq(vs, h, ev, seen) == [st |-> "ok", msg |-> "", val |-> Undef, vals |-> vs, h |-> h, ev |-> ev, seen |-> seen]
Throw(cls, m, h, ev, seen) == [st |-> cls, msg |-> m, val |-> Undef, vals |-> <<>>, h |-> h, ev |-> ev, seen |-> seen]

\* new WeakMap()
EmptySeen == <<>>
\* _seen.set(id, path)
SeenSet(seen, id, path) == [x \in (DOMAIN seen) \cup {id} |-> IF x = id THEN path ELSE seen[x]]

RECURSIVE Create(_, _, _, _, _, _)
RECURSIVE CreateEach(_, _, _, _, _, _, _, _)
RECURSIVE CreateEachBestEffort(_, _, _, _, _, _, _, _)
RECURSIVE CtorEach(_, _, _, _, _)
RECURSIVE StoicErrorCtor(_, _, _, _)

(***************************************************************************)
(* The body of StoicArray after its argument checks: every element is      *)
(* passed through Stoic.create with a tracker of its own, and the frozen   *)
(* instance is allocated.                                                  *)
(***************************************************************************)
CtorEach(h, ev, src, acc, bld) ==
  IF src = <<>> THEN OkSeq(acc, h, ev, EmptySeen)
  ELSE LET r == Create(h, ev, EmptySeen, <<>>, Head(src), bld)
       IN IF r.st # "ok" THEN r
          ELSE CtorEach(r.h, r.ev, Tail(src), Append(acc, r.val), bld)

StoicArrayFrom(h, ev, elems, bld) ==
  LET r == CtorEach(h, ev, elems, <<>>, bld)
  IN IF r.st # "ok" THEN r
     ELSE Ok(Ref(Len(r.h) + 1),
             Append(r.h, Obj("StoicArray", <<>>, r.vals, <<>>, <<>>, "", "", "", Undef, TRUE)),
             r.ev, EmptySeen)

\* The body of StoicObject after its argument checks (Object.entries loop).
StoicObjectFrom(h, ev, keys, vals, bld) ==
  LET r == CtorEach(h, ev, vals, <<>>, bld)
  IN IF r.st # "ok" THEN r
     ELSE Ok(Ref(Len(r.h) + 1),
             Append(r.h, Obj("StoicObject", keys, r.vals, <<>>, <<>>, "", "", "", Undef, TRUE)),
             r.ev, EmptySeen)

(***************************************************************************)
(* StoicError(error).  bld is the set of errors whose StoicError call is   *)
(* on the call stack: the cause is sanitized with a fresh tracker, so a    *)
(* call that re-enters StoicError for such an error repeats its caller     *)
(* and the recursion ends when the engine's call stack is exhausted        *)
(* (RangeError).                                                           *)
(***************************************************************************)
StoicErrorCtor(h, ev, v, bld) ==
  IF Tag(h, v) # "Error" THEN Throw("TypeError", "StoicError expects an error.", h, ev, EmptySeen)
  ELSE IF v.n \in bld THEN Throw("RangeError", "Maximum call stack size exceeded", h, ev, EmptySeen)
  ELSE LET e == h[v.n]
       IN IF HasKey(e, "cause")
          THEN LET r == Create(h, ev, EmptySeen, <<>>, Get(e, "cause"), bld \cup {v.n})
               IN IF r.st # "ok" THEN r
                  ELSE Ok(Ref(Len(r.h) + 1),
                          Append(r.h, Obj("StoicError", <<"cause">>, <<r.val>>, <<>>, <<>>,
                                          "Stoic" \o e.name, e.message, e.stack, Undef, TRUE)),
                          r.ev, EmptySeen)
          ELSE Ok(Ref(Len(h) + 1),
                  Append(h, Obj("StoicError", <<>>, <<>>, <<>>, <<>>,
                                "Stoic" \o e.name, e.message, e.stack, Undef, TRUE)),
                  ev, EmptySeen)

(***************************************************************************)
(* The loops of Stoic.create over the elements of an array (labels are the *)
(* indices) and over the for-in keys of an object: one tracker is shared   *)
(* by all the recursive calls, and a throw leaves the loop.                *)
(***************************************************************************)
CreateEachBestEffort(h, ev, seen, path, labels, src, acc, bld) ==
  IF src = <<>> THEN OkSeq(acc, h, ev, seen)
  ELSE LET r == Create(h, ev, seen, path \o <<Head(labels)>>, Head(src), bld)
       IN IF r.st # "ok"
          THEN CreateEachBestEffort(h, ev, seen, path, Tail(labels), Tail(src), Append(acc, Undef), bld)
          ELSE CreateEachBestEffort(r.h, r.ev, r.seen, path, Tail(labels), Tail(src), Append(acc, r.val), bld)

CreateEach(h, ev, seen, path, labels, src, acc, bld) ==
  IF src = <<>> THEN OkSeq(acc, h, ev, seen)
  ELSE LET r == Create(h, ev, seen, path \o <<Head(labels)>>, Head(src), bld)
       IN IF r.st # "ok" THEN r
          ELSE CreateEach(r.h, r.ev, r.seen, path, Tail(labels), Tail(src), Append(acc, r.val), bld)

\* The early returns of Stoic.create: null, undefined and every value whose
\* typeof is not 'object' are returned as they are.
PassThrough(h, v) == v.t = "null" \/ v.t = "undefined" \/ TypeOf(h, v) # "object"

\* The branch of Stoic.create for a reference the tracker holds: one warning
\* with the current and the original path, and undefined as the result.
CircularRefSamePath(h, ev, seen, path, v) ==
  Ok(Undef, h, Append(ev, [currentPath |-> path, originalPath |-> path]), seen)

CircularRef(h, ev, seen, path, v) ==
  Ok(Undef, h, Append(ev, [currentPath |-> path, originalPath |-> seen[v.n]]), seen)

\* The tags of the three immutable variants, which Stoic.create returns as they are.
IsStoicTagNoError(tag) == tag \in {"StoicObject", "StoicArray"}

IsStoicTag(tag) == tag \in StoicKinds

\* Object.valueOf(source): valueOf is found on Object.prototype and is called
\* with the Object constructor as its receiver, which it returns.
ObjectValueOf(h, v) == Ref(ObjectCtorId)

(***************************************************************************)
(* Stoic.create(source, _seen, _path).  ev is the sequence of warnings     *)
(* written so far (console.warn), each with the two paths it reports.      *)
(***************************************************************************)
Create(h, ev, seen, path, v, bld) ==
  IF PassThrough(h, v) THEN Ok(v, h, ev, seen)
  ELSE IF v.n \in DOMAIN seen THEN CircularRef(h, ev, seen, path, v)
  ELSE LET seen1 == SeenSet(seen, v.n, path)
           o == h[v.n]
           tag == Tag(h, v)
       IN CASE IsStoicTag(tag) -> Ok(v, h, ev, seen1)
            [] tag = "Date" -> Ok(o.prim, h, ev, seen1)
            [] tag = "RegExp" -> Ok(Str("/" \o o.prim.s \o "/"), h, ev, seen1)
            [] tag = "Array" ->
                 LET r == CreateEach(h, ev, seen1, path, IndexLabels(Len(o.vals)), o.vals, <<>>, bld)
                 IN IF r.st # "ok" THEN r
                    ELSE LET a == StoicArrayFrom(r.h, r.ev, r.vals, bld)
                         IN [a EXCEPT !.seen = r.seen]
            [] tag = "Error" ->
                 LET r == StoicErrorCtor(h, ev, v, bld)
                 IN [r EXCEPT !.seen = seen1]
            [] tag = "Object" ->
                 LET ks == ForInKeys(o)
                     r == CreateEach(h, ev, seen1, path, ks, [i \in 1..Len(ks) |-> Get(o, ks[i])], <<>>, bld)
                 IN IF r.st # "ok" THEN r
                    ELSE LET a == StoicObjectFrom(r.h, r.ev, ks, r.vals, bld)
                         IN [a EXCEPT !.seen = r.seen]
            [] tag \in {"Boolean", "Number", "String", "Symbol", "BigInt"} ->
                 Ok(ObjectValueOf(h, v), h, ev, seen1)
            [] OTHER -> Throw("TypeError", "Stoic.create: Unsupported type [object " \o tag \o "]", h, ev, seen1)

\* The argument check of StoicObject.
NotPlainObjectLoose(h, v) == ~IsRef(v) \/ Tag(h, v) = "Array"

NotPlainObject(h, v) == Tag(h, v) = "Array" \/ Tag(h, v) # "Object"

\* StoicObject(source)
StoicObjectCtor(h, ev, v) ==
  IF IsRef(v) /\ h[v.n].kind = "StoicObject" THEN Ok(v, h, ev, EmptySeen)
  ELSE IF NotPlainObject(h, v)
       THEN Throw("TypeError", "StoicObject expects a plain object.", h, ev, EmptySeen)
       ELSE StoicObjectFrom(h, ev, h[v.n].keys, h[v.n].vals, {})

\* StoicArray(source)
StoicArrayCtor(h, ev, v) ==
  IF IsRef(v) /\ h[v.n].kind = "StoicArray" THEN Ok(v, h, ev, EmptySeen)
  ELSE IF Tag(h, v) # "Array"
       THEN Throw("TypeError", "StoicArray expects an array.", h, ev, EmptySeen)
       ELSE StoicArrayFrom(h, ev, h[v.n].vals, {})

(***************************************************************************)
(* The caller: it builds a source graph, then calls the library.           *)
(***************************************************************************)
SourceKinds == {"Object", "Derived", "Array", "Error", "RangeError", "Function",
                "Promise", "WeakMap", "Date", "RegExp", "Number"}
Keys == {"self", "other"}
Prims == {Num(1), Undef, Null}

RECURSIVE SlotCount(_)
SlotCount(h) == IF h = <<>> THEN 0 ELSE Len(Head(h).vals) + SlotCount(Tail(h))

\* The further arguments of a view operation (none for the other calls).
NoArgs == [cb |-> "", start |-> 0, end |-> 0, count |-> 0, items |-> <<>>, index |-> 0, value |-> Undef]

NoResult == [st |-> "none", msg |-> "", val |-> Undef]
Outcome(r) == [st |-> r.st, msg |-> r.msg, val |-> r.val]

Init ==
  /\ heap = Realm
  /\ root = Undef
  /\ phase = "build"
  /\ op = "none"
  /\ arg = Undef
  /\ args = NoArgs
  /\ res = NoResult
  /\ events = <<>>
  /\ iters = <<>>

\* const x = new K(): the first object of the graph, which is the root.
AllocRoot ==
  /\ phase = "build"
  /\ Len(heap) = 1
  /\ \E k \in SourceKinds :
       /\ heap' = Append(heap, NewObject(k))
       /\ root' = Ref(Len(heap) + 1)
  /\ UNCHANGED <<phase, op, arg, args, res, events, iters>>

\* The values a new slot can hold: a primitive, an object of the graph, or a
\* newly allocated object.
SlotChoice(Act(_, _)) ==
  \/ \E p \in Prims : Act(p, heap)
  \/ \E i \in 2..Len(heap) : Act(Ref(i), heap)
  \/ /\ Len(heap) - 1 < MaxObj
     /\ \E k \in SourceKinds : Act(Ref(Len(heap) + 1), Append(heap, NewObject(k)))

AddSlot(o, k) ==
  /\ phase = "build"
  /\ SlotCount(heap) < MaxSlots
  /\ LET Act(v, h) == heap' = [h EXCEPT ![o].keys = Append(@, k), ![o].vals = Append(@, v)]
     IN SlotChoice(Act)
  /\ UNCHANGED <<root, phase, op, arg, args, res, events, iters>>

\* obj[key] = value, for a key the object does not have yet
SetField ==
  \E o \in 2..Len(heap) : \E k \in Keys :
    /\ heap[o].kind = "Object"
    /\ ~HasOwn(heap[o], k)
    /\ AddSlot(o, k)

\* arr.push(value)
Push ==
  \E o \in 2..Len(heap) :
    /\ heap[o].kind = "Array"
    /\ AddSlot(o, ToStr(Len(heap[o].vals)))

\* err.cause = value
SetCause ==
  \E o \in 2..Len(heap) :
    /\ heap[o].kind = "Error"
    /\ ~HasOwn(heap[o], "cause")
    /\ AddSlot(o, "cause")

\* The argument of a call: a primitive (before any object exists), the root of
\* the caller's graph, or the value the previous call returned.
CallArgs ==
  IF phase = "build" THEN (IF Len(heap) = 1 THEN Prims ELSE {root}) ELSE {res.val}

CanCall == phase = "build" \/ (phase = "called" /\ res.st = "ok")

AfterCall(name, a, r) ==
  /\ heap' = r.h
  /\ res' = Outcome(r)
  /\ events' = r.ev
  /\ phase' = IF phase = "build" THEN "called" ELSE "done"
  /\ op' = name
  /\ arg' = a
  /\ args' = NoArgs
  /\ UNCHANGED <<root, iters>>

\* Stoic.create(a)
CallCreate ==
  /\ CanCall
  /\ \E a \in CallArgs : AfterCall("create", a, Create(heap, <<>>, EmptySeen, <<>>, a, {}))

\* StoicObject(a)
CallStoicObject ==
  /\ CanCall
  /\ \E a \in CallArgs : AfterCall("StoicObject", a, StoicObjectCtor(heap, <<>>, a))

\* StoicArray(a)
CallStoicArray ==
  /\ CanCall
  /\ \E a \in CallArgs : AfterCall("StoicArray", a, StoicArrayCtor(heap, <<>>, a))

\* StoicError(a)
CallStoicError ==
  /\ CanCall
  /\ \E a \in CallArgs : AfterCall("StoicError", a, StoicErrorCtor(heap, <<>>, a, {}))

Next ==
  \/ AllocRoot \/ SetField \/ Push \/ SetCause
  \/ CallCreate
  \/ CallStoicObject \/ CallStoicArray \/ CallStoicError

Spec == Init /\ [][Next]_vars

(***************************************************************************)
(* The view operations of StoicArray.  Each delegates to the method of     *)
(* Array.prototype with the instance as receiver; the methods below are    *)
(* the ones whose result is a new array, modelled as ECMAScript defines    *)
(* them for an array-like receiver with elements s.                        *)
(***************************************************************************)
Min(a, b) == IF a < b THEN a ELSE b
Max(a, b) == IF a > b THEN a ELSE b

\* a relative index clamped to 0 .. len
RelIndex(i, len) == IF i < 0 THEN Max(len + i, 0) ELSE Min(i, len)

NaN == [t |-> "number", n |-> 0, s |-> "NaN"]

\* the callbacks the caller passes: x => x * 2 and x => x > 1
Apply(cb, v) ==
  CASE cb = "double" -> IF v.t = "number" /\ v.s = "" THEN Num(2 * v.n) ELSE NaN
    [] cb = "gt1" -> IF v.t = "number" /\ v.s = "" /\ v.n > 1 THEN Num(1) ELSE Num(0)
    [] OTHER -> Undef

RECURSIVE FilterLoop(_, _)
FilterLoop(cb, s) ==
  IF s = <<>> THEN <<>>
  ELSE (IF Apply(cb, Head(s)) = Num(1) THEN <<Head(s)>> ELSE <<>>) \o FilterLoop(cb, Tail(s))

RECURSIVE Insert(_, _)
\* x inserted into the ascending sequence s, after the elements equal to it
Insert(x, s) ==
  IF s = <<>> THEN <<x>>
  ELSE IF x.n < Head(s).n THEN <<x>> \o s ELSE <<Head(s)>> \o Insert(x, Tail(s))

RECURSIVE SortLoop(_, _)
\* a stable sort with the comparator (a, b) => a - b
SortLoop(s, acc) == IF s = <<>> THEN acc ELSE SortLoop(Tail(s), Insert(Head(s), acc))

\* What the built-in method gives: a new array with the elements vs, a new
\* array iterator over the receiver, a value as it is, or a throw.  made is
\* the class of the object it allocates.
RawOk(vs) == [st |-> "ok", made |-> "Array", vals |-> vs, val |-> Undef]
RawIterator(recv) == [st |-> "ok", made |-> "Array Iterator", vals |-> <<>>, val |-> recv]
RawValue(v) == [st |-> "ok", made |-> "none", vals |-> <<>>, val |-> v]
RawThrow(cls) == [st |-> cls, made |-> "none", vals |-> <<>>, val |-> Undef]

\* IsConcatSpreadable(e): no object of the model has Symbol.isConcatSpreadable,
\* so the answer is IsArray(e)
IsConcatSpreadable(h, e) == IsRef(e) /\ h[e.n].kind = "Array"

RECURSIVE ConcatLoop(_, _)
\* Array.prototype.concat over the receiver followed by the arguments: the
\* elements of a spreadable item are appended, any other item is appended
\* as one element.
ConcatLoop(h, items) ==
  IF items = <<>> THEN <<>>
  ELSE (IF IsConcatSpreadable(h, Head(items)) THEN h[Head(items).n].vals ELSE <<Head(items)>>)
         \o ConcatLoop(h, Tail(items))

\* the reducers the caller passes: (acc, x) => acc + x and (acc, x) => acc
ApplyReducer(cb, acc, x) ==
  CASE cb = "sum" -> Num(acc.n + x.n)
    [] OTHER -> acc

RECURSIVE ReduceLoop(_, _, _, _)
\* the loop of reduce and reduceRight over the indices idx, from the
\* accumulator acc
ReduceLoop(cb, s, idx, acc) ==
  IF idx = <<>> THEN acc
  ELSE ReduceLoop(cb, s, Tail(idx), ApplyReducer(cb, acc, s[Head(idx)]))

\* the indices reduce visits, and those reduceRight visits
Ascending(len) == [i \in 1..len |-> i]
Descending(len) == [i \in 1..len |-> len + 1 - i]

\* Array.prototype[method].apply(this, args), for the receiver recv
ArrayProto(method, h, recv, a) ==
  LET s == h[recv.n].vals
      len == Len(s)
  IN CASE method = "map" -> RawOk([i \in 1..len |-> Apply(a.cb, s[i])])
       [] method = "filter" -> RawOk(FilterLoop(a.cb, s))
       [] method = "slice" ->
            LET k == RelIndex(a.start, len)
                final == RelIndex(a.end, len)
            IN RawOk([i \in 1..Max(final - k, 0) |-> s[k + i]])
       [] method = "toReversed" -> RawOk([i \in 1..len |-> s[len + 1 - i]])
       [] method = "toSorted" -> RawOk(SortLoop(s, <<>>))
       [] method = "toSpliced" ->
            LET k == RelIndex(a.start, len)
                skip == Min(Max(a.count, 0), len - k)
            IN RawOk(SubSeq(s, 1, k) \o a.items \o SubSeq(s, k + skip + 1, len))
       [] method = "with" ->
            LET k == IF a.index < 0 THEN len + a.index ELSE a.index
            IN IF k >= len \/ k < 0 THEN RawThrow("RangeError")
               ELSE RawOk([i \in 1..len |-> IF i = k + 1 THEN a.value ELSE s[i]])
       [] method = "concat" -> RawOk(ConcatLoop(h, <<recv>> \o a.items))
       [] method = "values" -> RawIterator(recv)
       [] method = "reduce" -> RawValue(ReduceLoop(a.cb, s, Ascending(len), a.value))
       [] method = "reduceRight" -> RawValue(ReduceLoop(a.cb, s, Descending(len), a.value))
       [] OTHER -> RawThrow("TypeError")

\* The mapping handed to delegateStoicMethods for StoicArray: how the result
\* of each method is post-processed.
WrapperMapVerbatim(method) ==
  CASE method \in {"concat", "filter", "slice", "toReversed", "toSorted", "toSpliced", "with"} -> "StoicArray"
    [] method \in {"at", "find", "findIndex", "findLast", "reduceRight", "values"} -> "create"
    [] OTHER -> "none"

Wrapper(method) ==
  CASE method \in {"concat", "filter", "map", "slice", "toReversed", "toSorted", "toSpliced", "with"} -> "StoicArray"
    [] method \in {"at", "find", "findIndex", "findLast", "reduceRight", "values"} -> "create"
    [] OTHER -> "none"

\* The function delegateStoicMethods defines for a method: the built-in is
\* applied to the instance, and its result goes through the wrapper.
Delegate(h, ev, recv, method, a) ==
  LET raw == ArrayProto(method, h, recv, a)
  IN IF raw.st # "ok" THEN Throw(raw.st, "", h, ev, EmptySeen)
     ELSE LET h1 == IF raw.made = "none" THEN h
                    ELSE Append(h, Obj(raw.made, IndexLabels(Len(raw.vals)), raw.vals, <<>>, <<>>, "", "", "", raw.val, FALSE))
              result == IF raw.made = "none" THEN raw.val ELSE Ref(Len(h) + 1)
          IN CASE Wrapper(method) = "StoicArray" -> StoicArrayCtor(h1, ev, result)
               [] Wrapper(method) = "create" -> Create(h1, ev, EmptySeen, <<>>, result, {})
               [] OTHER -> Ok(result, h1, ev, EmptySeen)

\* Bounds of the view-operation model.
MaxViewLen == 3

ViewNums == {Num(1), Num(2), Num(3)}
\* a plain object {} the caller keeps, to pass as a new element
SpareId == Len(Realm) + 2
ViewIdx == -1..MaxViewLen

RECURSIVE SeqsUpTo(_, _)
SeqsUpTo(S, n) ==
  IF n = 0 THEN {<<>>}
  ELSE LET shorter == SeqsUpTo(S, n - 1)
       IN shorter \cup {Append(q, x) : q \in {p \in shorter : Len(p) = n - 1}, x \in S}

\* The state after s = Stoic.create(source) for an array of numbers, which may
\* hold the plain object as well.
InitView ==
  \E elems \in SeqsUpTo(ViewNums \cup {Ref(SpareId)}, MaxViewLen) :
    LET h0 == Realm \o
                <<Obj("Array", IndexLabels(Len(elems)), elems, <<>>, <<>>, "", "", "", Undef, FALSE),
                  NewObject("Object")>>
        r == Create(h0, <<>>, EmptySeen, <<>>, Ref(Len(Realm) + 1), {})
    IN /\ heap = r.h
       /\ root = Ref(Len(Realm) + 1)
       /\ phase = "called"
       /\ op = "create"
       /\ arg = Ref(Len(Realm) + 1)
       /\ args = NoArgs
       /\ res = Outcome(r)
       /\ events = r.ev
       /\ iters = <<>>

\* s.method(...a) on the sequence s that create returned
ViewCall(method, a) ==
  /\ phase = "called" /\ op = "create" /\ res.st = "ok"
  /\ Tag(heap, res.val) = "StoicArray"
  /\ \E r \in {Delegate(heap, <<>>, res.val, method, a)} :
       /\ heap' = r.h
       /\ res' = Outcome(r)
       /\ events' = r.ev
  /\ phase' = "done"
  /\ op' = method
  /\ arg' = res.val
  /\ args' = a
  /\ UNCHANGED <<root, iters>>

AllNumbers(s) == \A i \in 1..Len(s) : s[i].t = "number" /\ s[i].s = ""

ViewMap == ViewCall("map", [NoArgs EXCEPT !.cb = "double"])
ViewFilter == ViewCall("filter", [NoArgs EXCEPT !.cb = "gt1"])
ViewSlice == \E i \in ViewIdx, j \in ViewIdx : ViewCall("slice", [NoArgs EXCEPT !.start = i, !.end = j])
ViewToReversed == ViewCall("toReversed", NoArgs)
\* with the comparator (a, b) => a - b, which orders numbers only
ViewToSorted ==
  /\ IsRef(res.val) /\ AllNumbers(heap[res.val.n].vals)
  /\ ViewCall("toSorted", [NoArgs EXCEPT !.cb = "minus"])
ViewToSpliced ==
  \E i \in ViewIdx, c \in 0..2, it \in {<<>>, <<Num(9)>>, <<Ref(SpareId)>>} :
    ViewCall("toSpliced", [NoArgs EXCEPT !.start = i, !.count = c, !.items = it])
ViewWith ==
  \E i \in ViewIdx, v \in {Num(9), Ref(SpareId)} :
    ViewCall("with", [NoArgs EXCEPT !.index = i, !.value = v])

\* s.concat(t), for t the caller's ordinary array or the sequence s itself
ViewConcat == \E t \in {root, res.val} : ViewCall("concat", [NoArgs EXCEPT !.items = <<t>>])
\* s.values()
ViewValues == ViewCall("values", NoArgs)

\* the reducer and the initial value of a fold: the sum of numbers from 0, or
\* a reducer that returns the accumulator it is given, a number or the
\* caller's plain object
FoldArgs ==
  {[NoArgs EXCEPT !.cb = "sum", !.value = Num(0)]}
    \cup {[NoArgs EXCEPT !.cb = "keep", !.value = v] : v \in {Num(9), Ref(SpareId)}}

ViewFold(method) ==
  \E a \in FoldArgs :
    /\ a.cb = "sum" => (IsRef(res.val) /\ AllNumbers(heap[res.val.n].vals))
    /\ ViewCall(method, a)

\* s.reduce(cb, value)
ViewReduce == ViewFold("reduce")
\* s.reduceRight(cb, value)
ViewReduceRight == ViewFold("reduceRight")

NextView ==
  \/ ViewMap \/ ViewFilter \/ ViewSlice \/ ViewToReversed
  \/ ViewToSorted \/ ViewToSpliced \/ ViewWith
  \/ ViewConcat \/ ViewValues \/ ViewReduce \/ ViewReduceRight

SpecView == InitView /\ [][NextView]_vars

(***************************************************************************)
(* Vocabulary of the properties.                                           *)
(***************************************************************************)
\* The values Stoic.create recurses into from a source object.
SourceKids(h, id) ==
  LET o == h[id]
  IN CASE o.kind = "Object" -> {Get(o, k) : k \in {o.keys[i] : i \in 1..Len(o.keys)} \cup {o.ikeys[i] : i \in 1..Len(o.ikeys)}}
       [] o.kind = "Array" -> {o.vals[i] : i \in 1..Len(o.vals)}
       [] o.kind = "Error" -> IF HasKey(o, "cause") THEN {Get(o, "cause")} ELSE {}
       [] OTHER -> {}

RefIds(vs) == {v.n : v \in {w \in vs : IsRef(w)}}

RECURSIVE Closure(_, _)
Closure(h, ids) ==
  LET more == ids \cup UNION {RefIds(SourceKids(h, i)) : i \in ids}
  IN IF more = ids THEN ids ELSE Closure(h, more)

\* The objects of the source graph of v: v itself and what it contains at any depth.
ReachIds(h, v) == IF IsRef(v) THEN Closure(h, {v.n}) ELSE {}

\* v is, or contains at some depth, an object of one of the kinds
Contains(h, v, kinds) == \E i \in ReachIds(h, v) : h[i].kind \in kinds

\* no object of the graph of v is reachable from itself
Acyclic(h, v) == \A i \in ReachIds(h, v) : i \notin Closure(h, RefIds(SourceKids(h, i)))

\* some failure of the graph of v is reachable from its own cause
CauseCycle(h, v) ==
  \E i \in ReachIds(h, v) : h[i].kind = "Error" /\ i \in Closure(h, RefIds(SourceKids(h, i)))

RECURSIVE DeepFrozen(_, _)
\* v is a primitive, or a frozen immutable variant all of whose values are so
DeepFrozen(h, v) ==
  \/ ~IsRef(v)
  \/ /\ h[v.n].kind \in StoicKinds
     /\ h[v.n].frozen
     /\ \A i \in 1..Len(h[v.n].vals) : DeepFrozen(h, h[v.n].vals[i])

RECURSIVE OutputHolds(_, _, _)
\* an object of one of the kinds is the value v or is held inside the result v
OutputHolds(h, v, kinds) ==
  /\ IsRef(v)
  /\ \/ h[v.n].kind \in kinds
     \/ /\ h[v.n].kind \in StoicKinds
        /\ \E i \in 1..Len(h[v.n].vals) : OutputHolds(h, h[v.n].vals[i], kinds)

RECURSIVE Mirrors(_, _, _)
\* the result out has, at every level, the own keys of the record src in the
\* same order, or the length and the elements of the sequence src in the same order
Mirrors(h, src, out) ==
  IF ~IsRef(src) THEN out = src
  ELSE IF ~IsRef(out) THEN TRUE
  ELSE CASE h[src.n].kind = "Object" /\ h[out.n].kind = "StoicObject" ->
              /\ h[out.n].keys = h[src.n].keys
              /\ \A i \in 1..Len(h[out.n].keys) : Mirrors(h, Get(h[src.n], h[out.n].keys[i]), h[out.n].vals[i])
         [] h[src.n].kind = "Array" /\ h[out.n].kind = "StoicArray" ->
              /\ Len(h[out.n].vals) = Len(h[src.n].vals)
              /\ \A i \in 1..Len(h[out.n].vals) : Mirrors(h, h[src.n].vals[i], h[out.n].vals[i])
         [] OTHER -> TRUE

UnsupportedMsg(m) ==
  m \in {"Stoic.create: Unsupported type [object Promise]",
         "Stoic.create: Unsupported type [object WeakMap]",
         "Stoic.create: Unsupported type [object Function]"}

Ctors == {"StoicObject", "StoicArray", "StoicError"}

(***************************************************************************)
(* Properties.                                                             *)
(***************************************************************************)

\* C1: Stoic.create fails with UnsupportedType (a TypeError) whenever its input
\* is or contains, at any depth, a function, a Promise or a WeakMap, and no
\* value it returns is or holds one.
C1_RejectsUnsupported ==
  op = "create" =>
    /\ Contains(heap, arg, {"Function", "Promise", "WeakMap"}) =>
         (res.st = "TypeError" /\ UnsupportedMsg(res.msg))
    /\ res.st = "ok" => ~OutputHolds(heap, res.val, {"Function", "Promise", "WeakMap"})

\* C2: every composite value reachable from a value Stoic.create returned is a
\* frozen immutable Record, Sequence or Failure.
C2_DeepFrozen ==
  (op = "create" /\ res.st = "ok") => DeepFrozen(heap, res.val)

\* C3: Stoic.create of a value that already is an immutable Record, Sequence or
\* Failure returns that very instance.
C3_CreateIdempotent ==
  (op = "create" /\ IsRef(arg) /\ heap[arg.n].kind \in StoicKinds) =>
    (res.st = "ok" /\ res.val = arg /\ events = <<>>)

C3_Witness ==
  /\ op = "create" /\ phase = "done" /\ IsRef(arg)
  /\ heap[arg.n].kind = "StoicError"
  /\ res.val = arg

\* a = {}; a.self = a
SelfRecord(h, v) ==
  /\ IsRef(v)
  /\ h[v.n].kind = "Object"
  /\ h[v.n].keys = <<"self">> /\ h[v.n].vals = <<v>> /\ h[v.n].ikeys = <<>>

\* C4: for a record a whose field self is a itself, Stoic.create(a) returns a
\* record whose self field is undefined, does not fail, and emits exactly one
\* diagnostic event, with currentPath = ["self"] and originalPath = [].
C4_SelfCycle ==
  (op = "create" /\ SelfRecord(heap, arg)) =>
    /\ res.st = "ok"
    /\ IsRef(res.val)
    /\ heap[res.val.n].kind = "StoicObject"
    /\ heap[res.val.n].keys = <<"self">>
    /\ heap[res.val.n].vals = <<Undef>>
    /\ events = <<[currentPath |-> <<"self">>, originalPath |-> <<>>]>>

C4_Witness == op = "create" /\ SelfRecord(heap, arg) /\ Len(events) = 1

\* C5: for a supported acyclic input, at every level the output record has
\* exactly the own enumerable keys of the source record in the same order, and
\* the output sequence has the length and the element order of the source.
C5_ShapePreserved ==
  (op = "create" /\ res.st = "ok" /\ Acyclic(heap, arg)) => Mirrors(heap, arg, res.val)

CollectionOps == {"map", "filter", "slice", "toReversed", "toSorted", "toSpliced", "with"}

\* out is the sanitized form of the value v handed to a view operation
SanitizedArg(h, v, out) ==
  IF IsRef(v) THEN IsRef(out) /\ out # v /\ DeepFrozen(h, out) ELSE out = v

Count(s, x) == Cardinality({i \in 1..Len(s) : s[i] = x})

\* r is what the operation yields for a sequence with the elements s
ViewResult(h, method, a, s, r) ==
  LET len == Len(s)
  IN CASE method = "map" -> Len(r) = len /\ \A i \in 1..len : r[i] = Apply("double", s[i])
       [] method = "filter" ->
            r = SelectSeq(s, LAMBDA x : x.t = "number" /\ x.s = "" /\ x.n > 1)
       [] method = "slice" -> r = SubSeq(s, RelIndex(a.start, len) + 1, RelIndex(a.end, len))
       [] method = "toReversed" -> Len(r) = len /\ \A i \in 1..len : r[i] = s[len + 1 - i]
       [] method = "toSorted" ->
            /\ Len(r) = len
            /\ \A i \in 1..len : \A j \in i..len : r[i].n <= r[j].n
            /\ \A i \in 1..len : Count(r, s[i]) = Count(s, s[i])
       [] method = "toSpliced" ->
            LET k == RelIndex(a.start, len)
                skip == Min(a.count, len - k)
                n == Len(a.items)
            IN /\ Len(r) = len - skip + n
               /\ \A i \in 1..k : r[i] = s[i]
               /\ \A i \in 1..n : SanitizedArg(h, a.items[i], r[k + i])
               /\ \A i \in (k + skip + 1)..len : r[i - skip + n] = s[i]
       [] method = "with" ->
            LET k == IF a.index < 0 THEN len + a.index ELSE a.index
            IN /\ Len(r) = len
               /\ \A i \in 1..len : IF i = k + 1 THEN SanitizedArg(h, a.value, r[i]) ELSE r[i] = s[i]
       [] OTHER -> FALSE

\* C6: a view operation whose natural result is a collection returns a new
\* immutable Sequence, distinct from the receiver, that holds the operation's
\* result, and leaves the receiver (and every other object) as it was; it
\* fails only where the operation itself does (with, index out of range).
C6_ViewPurity ==
  [][(op' \in CollectionOps /\ phase' = "done" /\ phase = "called") =>
       LET s == heap[arg'.n].vals
       IN /\ \A i \in 1..Len(heap) : heap'[i] = heap[i]
          /\ res'.st # "ok" =>
               /\ op' = "with"
               /\ LET k == IF args'.index < 0 THEN Len(s) + args'.index ELSE args'.index
                  IN k < 0 \/ k >= Len(s)
          /\ res'.st = "ok" =>
               /\ IsRef(res'.val)
               /\ res'.val # arg'
               /\ res'.val.n > Len(heap)
               /\ heap'[res'.val.n].kind = "StoicArray"
               /\ heap'[res'.val.n].frozen
               /\ ViewResult(heap', op', args', s, heap'[res'.val.n].vals)]_vars

\* [1, 2, 3].map(x => x * 2) gave [2, 4, 6] and the receiver still holds [1, 2, 3]
C6_Witness ==
  /\ op = "map" /\ res.st = "ok"
  /\ heap[arg.n].vals = <<Num(1), Num(2), Num(3)>>
  /\ heap[res.val.n].vals = <<Num(2), Num(4), Num(6)>>
  /\ heap[res.val.n].kind = "StoicArray"

\* C7: each direct constructor, called with an instance of its own variant,
\* returns that instance.
C7_CtorIdempotent ==
  (op \in Ctors /\ IsRef(arg) /\ heap[arg.n].kind = op) =>
    (res.st = "ok" /\ res.val = arg)

\* the argument is not of the kind the constructor is for
Mismatch(name, h, a) ==
  CASE name = "StoicObject" -> ~IsRef(a) \/ Tag(h, a) \in {"Array", "StoicArray", "Error", "StoicError"}
    [] name = "StoicArray" -> Tag(h, a) \notin {"Array", "StoicArray"}
    [] name = "StoicError" -> Tag(h, a) \notin {"Error", "StoicError"}
    [] OTHER -> FALSE

Expects(name) ==
  CASE name = "StoicObject" -> "StoicObject expects a plain object."
    [] name = "StoicArray" -> "StoicArray expects an array."
    [] name = "StoicError" -> "StoicError expects an error."
    [] OTHER -> ""

\* C8: a direct constructor whose argument is not of the matching kind fails
\* with InvalidArgument (a TypeError) and produces no instance: the heap is
\* left as it was.
C8_CtorRejects ==
  [][(op' \in Ctors /\ Mismatch(op', heap, arg')) =>
       (res'.st = "TypeError" /\ res'.msg = Expects(op') /\ res'.val = Undef /\ heap' = heap)]_vars

C8_Witness ==
  /\ op = "StoicObject" /\ IsRef(arg) /\ heap[arg.n].kind = "Error"
  /\ res.st = "TypeError"

\* C9: StoicError(e) of a native failure e has the message and the stack of e,
\* the name "Stoic" followed by e.name, and a cause exactly if e exposes one,
\* which is then the fully sanitized form of e.cause (immutable if composite).
C9_FailureFields ==
  (op = "StoicError" /\ Tag(heap, arg) = "Error" /\ res.st = "ok") =>
    LET e == heap[arg.n]
        r == heap[res.val.n]
    IN /\ r.kind = "StoicError"
       /\ r.message = e.message
       /\ r.stack = e.stack
       /\ r.name = "Stoic" \o e.name
       /\ HasOwn(r, "cause") <=> HasKey(e, "cause")
       /\ HasOwn(r, "cause") => DeepFrozen(heap, Get(r, "cause"))

\* C10: when the input of Stoic.create contains, at any depth and also inside a
\* failure's cause, a value that has no supported representation, the call
\* fails and returns nothing; the failure is the UnsupportedType error unless
\* the call stack is exhausted first.
C10_AllOrNothing ==
  (op = "create" /\ Contains(heap, arg, {"Promise", "WeakMap"})) =>
    /\ res.st \in {"TypeError", "RangeError"}
    /\ res.val = Undef
    /\ ~CauseCycle(heap, arg) => (res.st = "TypeError" /\ UnsupportedMsg(res.msg))

\* an unsupported value inside the cause of a failure that is nested in the input
C10_Witness ==
  /\ op = "create" /\ res.st = "TypeError"
  /\ IsRef(arg) /\ heap[arg.n].kind \in {"Object", "Array"}
  /\ \E i \in ReachIds(heap, arg) :
       /\ heap[i].kind = "Error" /\ HasOwn(heap[i], "cause")
       /\ IsRef(Get(heap[i], "cause"))
       /\ heap[Get(heap[i], "cause").n].kind \in {"Promise", "WeakMap"}

\* The objects a value gives access to: itself and, at any depth, the values
\* of its properties and elements.
HeldIds(h, id) == RefIds({h[id].vals[i] : i \in 1..Len(h[id].vals)})

RECURSIVE HeldClosure(_, _)
HeldClosure(h, ids) ==
  LET more == ids \cup UNION {HeldIds(h, i) : i \in ids}
  IN IF more = ids THEN ids ELSE HeldClosure(h, more)

OutIds(h, v) == IF IsRef(v) THEN HeldClosure(h, {v.n}) ELSE {}

\* C11: after r = Stoic.create(x) has returned, no mutable object of the source
\* graph of x is reachable from r, so that no later mutation of the source can
\* be observed through r.
C11_NoAlias ==
  (op = "create" /\ res.st = "ok") =>
    \A i \in ReachIds(heap, arg) : heap[i].frozen \/ i \notin OutIds(heap, res.val)

(***************************************************************************)
(* Iteration of a StoicArray.  s[Symbol.iterator]() gives a generator over *)
(* the body  for (let i = 0; i < this.length; i++) yield this[i];  each    *)
(* it.next() runs it to the next yield or to its end.  A generator is      *)
(* [recv, i, state, out, calls]: its receiver (this), its variable i, its  *)
(* state, and what the caller has got from it so far (the values yielded   *)
(* and the number of next() calls).                                        *)
(***************************************************************************)
\* Number of generators the caller obtains from one sequence.
MaxIters == 2

\* s[Symbol.iterator](): the body has not started yet
NewGenerator(recv) == [recv |-> recv.n, i |-> 0, state |-> "suspendedStart", out |-> <<>>, calls |-> 0]

\* The loop test of the generator body.
LoopTestInclusive(h, it, i) == i <= Len(h[it.recv].vals)

LoopTest(h, it, i) == i < Len(h[it.recv].vals)

\* it.next(): from the start i is 0, from a yield i++ runs first; then the
\* loop test decides between the next yield and the end of the body.
GeneratorNext(h, it) ==
  IF it.state = "completed" THEN [it EXCEPT !.calls = @ + 1]
  ELSE LET i == IF it.state = "suspendedStart" THEN 0 ELSE it.i + 1
           this == h[it.recv]
       IN IF LoopTest(h, it, i)
          THEN [it EXCEPT !.i = i, !.state = "suspendedYield", !.calls = @ + 1,
                          !.out = Append(@, IF i < Len(this.vals) THEN this.vals[i + 1] ELSE Undef)]
          ELSE [it EXCEPT !.i = i, !.state = "completed", !.calls = @ + 1]

\* const it = s[Symbol.iterator](), on the sequence that create returned
GetIterator ==
  /\ phase = "called" /\ op = "create" /\ res.st = "ok"
  /\ Tag(heap, res.val) = "StoicArray"
  /\ Len(iters) < MaxIters
  /\ iters' = Append(iters, NewGenerator(res.val))
  /\ UNCHANGED <<heap, root, phase, op, arg, args, res, events>>

\* it.next(), for any of the generators that has not reported its end
IterNext ==
  /\ \E k \in 1..Len(iters) :
       /\ iters[k].state # "completed"
       /\ iters' = [iters EXCEPT ![k] = GeneratorNext(heap, @)]
  /\ UNCHANGED <<heap, root, phase, op, arg, args, res, events>>

NextIter == GetIterator \/ IterNext

SpecIter == InitView /\ [][NextIter]_vars

\* C12: every pass over a sequence s yields s[0] .. s[length-1] in ascending
\* index order and then ends: a generator that has answered n calls of next()
\* has yielded the first n elements of s, it reports its end at call number
\* s.length + 1 and not before, and this holds for every pass, whatever the
\* other passes over s have done; the sequence itself stays as it was.
C12_Iteration ==
  \A k \in 1..Len(iters) :
    LET it == iters[k]
        s == heap[it.recv].vals
    IN /\ heap[it.recv].kind = "StoicArray" /\ heap[it.recv].frozen
       /\ Len(it.out) <= Len(s)
       /\ it.out = SubSeq(s, 1, Len(it.out))
       /\ it.calls = Len(it.out) + (IF it.state = "completed" THEN 1 ELSE 0)
       /\ it.state = "completed" => it.out = s

\* two interleaved passes over a sequence of three elements: one has ended
\* with all three, the other has got the first only
C12_Witness ==
  /\ Len(iters) = 2
  /\ Len(heap[iters[1].recv].vals) = 3
  /\ iters[1].state = "suspendedYield" /\ Len(iters[1].out) = 1
  /\ iters[2].state = "completed" /\ Len(iters[2].out) = 3

(***************************************************************************)
(* StaticObject (src/StaticObject.js) and StaticArray (the class that      *)
(* imports it).  A StaticObject copy is an object without prototype, here  *)
(* of kind "StaticObject"; a StaticArray instance has the own property     *)
(* length and one own property per index it defines.                       *)
(***************************************************************************)
\* Number of arguments of a StaticArray.
MaxArgs == 2

RECURSIVE StaticObjectNew(_, _, _)
RECURSIVE DeepFreezeEach(_, _, _, _)

\* StaticObject.#freezeFunction(fn): a new frozen function with fn's own properties
FreezeFunction(h, v) ==
  Ok(Ref(Len(h) + 1), Append(h, [h[v.n] EXCEPT !.frozen = TRUE]), <<>>, EmptySeen)

\* StaticObject.#deepFreeze(value)
DeepFreeze(h, v, bld) ==
  IF TypeOf(h, v) = "object" THEN StaticObjectNew(h, v, bld)
  ELSE IF TypeOf(h, v) = "function" THEN FreezeFunction(h, v)
  ELSE Ok(v, h, <<>>, EmptySeen)

\* the loop over Reflect.ownKeys(sample)
DeepFreezeEach(h, src, acc, bld) ==
  IF src = <<>> THEN OkSeq(acc, h, <<>>, EmptySeen)
  ELSE LET r == DeepFreeze(h, Head(src), bld)
       IN IF r.st # "ok" THEN r
          ELSE DeepFreezeEach(r.h, Tail(src), Append(acc, r.val), bld)

\* new StaticObject(sample).  bld is the set of samples whose constructor is
\* on the call stack: a sample that contains itself is copied again and again
\* until the call stack is exhausted.
StaticObjectNew(h, v, bld) ==
  IF v.t = "null" \/ TypeOf(h, v) # "object"
  THEN Ok(Ref(Len(h) + 1),
          Append(h, Obj("StaticObject", <<>>, <<>>, <<>>, <<>>, "", "", "", Undef, FALSE)),
          <<>>, EmptySeen)
  ELSE IF v.n \in bld THEN Throw("RangeError", "Maximum call stack size exceeded", h, <<>>, EmptySeen)
  ELSE LET r == DeepFreezeEach(h, h[v.n].vals, <<>>, bld \cup {v.n})
       IN IF r.st # "ok" THEN r
          ELSE Ok(Ref(Len(r.h) + 1),
                  Append(r.h, Obj("StaticObject", h[v.n].keys, r.vals, <<>>, <<>>, "", "", "", Undef, TRUE)),
                  <<>>, EmptySeen)

\* eval(`(${value.toString()})`): a new function with the source text of value
EvalFunction(h, v) == Append(h, [h[v.n] EXCEPT !.keys = <<>>, !.vals = <<>>])

\* The first test of the forEach callback: the value goes to StaticObject.
IsForeignObject(h, v) == TypeOf(h, v) = "object" /\ ~(IsRef(v) /\ h[v.n].kind = "StaticArray")

\* Object.defineProperty(this, index, { value, ... })
DefineIndex(h, this, index, value) ==
  [h EXCEPT ![this].keys = Append(@, ToStr(index)), ![this].vals = Append(@, value)]

RECURSIVE ForEachArgument(_, _, _, _)
\* Array.from(arguments).forEach((value, index) => ...): the callback returns
\* early for an object that is not a StaticArray and for a function, and
\* defines this[index] for every other value.
ForEachArgument(h, this, argv, index) ==
  IF argv = <<>> THEN Ok(Ref(this), h, <<>>, EmptySeen)
  ELSE LET value == Head(argv)
       IN IF IsForeignObject(h, value)
          THEN LET r == StaticObjectNew(h, value, {})
               IN IF r.st # "ok" THEN r
                  ELSE ForEachArgument(r.h, this, Tail(argv), index + 1)
          ELSE IF TypeOf(h, value) = "function"
          THEN ForEachArgument(EvalFunction(h, value), this, Tail(argv), index + 1)
          ELSE ForEachArgument(DefineIndex(h, this, index, value), this, Tail(argv), index + 1)

\* new StaticArray(...argv): the instance exists when the constructor body
\* starts; the body defines length, runs the loop and freezes the instance.
StaticArrayNew(h, argv) ==
  LET this == Len(h) + 1
      h1 == Append(h, Obj("StaticArray", <<"length">>, <<Num(Len(argv))>>, <<>>, <<>>, "", "", "", Undef, FALSE))
      r == ForEachArgument(h1, this, argv, 0)
  IN IF r.st # "ok" THEN r
     ELSE Ok(Ref(this), [r.h EXCEPT ![this].frozen = TRUE], <<>>, EmptySeen)

\* The caller's objects: { self: 1 }, function f() {}, { other: <the first> },
\* and a record that holds itself.
SampleHeap ==
  Realm \o
    <<Obj("Object", <<"self">>, <<Num(1)>>, <<>>, <<>>, "", "", "", Undef, FALSE),
      NewObject("Function"),
      Obj("Object", <<"other">>, <<Ref(Len(Realm) + 1)>>, <<>>, <<>>, "", "", "", Undef, FALSE),
      Obj("Object", <<"self">>, <<Ref(Len(Realm) + 4)>>, <<>>, <<>>, "", "", "", Undef, FALSE)>>

InitStatic ==
  /\ heap = SampleHeap
  /\ root = Undef
  /\ phase = "build"
  /\ op = "none"
  /\ arg = Undef
  /\ args = NoArgs
  /\ res = NoResult
  /\ events = <<>>
  /\ iters = <<>>

\* the values the caller passes: primitives, its objects, and what the
\* previous call returned
StaticArgs ==
  {Num(1), Null} \cup {Ref(i) : i \in (Len(Realm) + 1)..Len(SampleHeap)}
    \cup (IF phase = "called" THEN {res.val} ELSE {})

AfterStaticCall(name, a, argv, r) ==
  /\ heap' = r.h
  /\ res' = Outcome(r)
  /\ phase' = IF phase = "build" THEN "called" ELSE "done"
  /\ op' = name
  /\ arg' = a
  /\ args' = [NoArgs EXCEPT !.items = argv]
  /\ UNCHANGED <<root, events, iters>>

\* new StaticArray(...argv)
CallStaticArray ==
  /\ CanCall
  /\ \E argv \in SeqsUpTo(StaticArgs, MaxArgs) :
       AfterStaticCall("StaticArray", Undef, argv, StaticArrayNew(heap, argv))

\* new StaticObject(a)
CallStaticObject ==
  /\ CanCall
  /\ \E a \in StaticArgs : AfterStaticCall("StaticObject", a, <<>>, StaticObjectNew(heap, a, {}))

NextStatic == CallStaticArray \/ CallStaticObject

SpecStatic == InitStatic /\ [][NextStatic]_vars

\* out is the StaticObject conversion of the object v: a frozen copy
IsStaticCopy(h, v, out) ==
  /\ IsRef(out) /\ out # v
  /\ h[out.n].kind = "StaticObject" /\ h[out.n].frozen
  /\ h[out.n].keys = h[v.n].keys

\* C13: a StaticArray constructed from n arguments has length n, and for every
\* index i < n its element i is defined: a primitive argument is stored as it
\* is, and an object argument that is not a StaticArray is stored as its
\* StaticObject conversion, a frozen copy.
C13_StaticArrayElements ==
  (op = "StaticArray" /\ res.st = "ok") =>
    LET o == heap[res.val.n]
        a == args.items
    IN /\ Get(o, "length") = Num(Len(a))
       /\ \A i \in 1..Len(a) :
            /\ HasOwn(o, ToStr(i - 1))
            /\ ~IsRef(a[i]) => Get(o, ToStr(i - 1)) = a[i]
            /\ (IsRef(a[i]) /\ heap[a[i].n].kind \in {"Object", "StaticObject"}) =>
                 IsStaticCopy(heap, a[i], Get(o, ToStr(i - 1)))

\* C14: Stoic.create ends, for every finite input graph, by returning a value
\* or by failing with UnsupportedType, also when a reference cycle of the
\* input passes through the cause of a failure: that cycle is cut with
\* undefined and the call returns.
C14_Terminates ==
  op = "create" =>
    /\ res.st = "ok" \/ (res.st = "TypeError" /\ UnsupportedMsg(res.msg))
    /\ (CauseCycle(heap, arg) /\ ~Contains(heap, arg, {"Promise", "WeakMap"})) => res.st = "ok"

\* what Stoic.create makes of a date, a pattern or an immutable instance
Converted(h, v) ==
  CASE h[v.n].kind = "Date" -> h[v.n].prim
    [] h[v.n].kind = "RegExp" -> Str("/" \o h[v.n].prim.s \o "/")
    [] OTHER -> v

\* the label of the i-th slot of a record or sequence in a path
SlotLabel(o, i) == IF o.kind = "Array" THEN ToStr(i - 1) ELSE o.keys[i]

\* C15: dates, patterns and immutable instances get no entry in the cycle
\* tracker: at every position of a record or sequence where the input holds
\* one, also one that occurs at another position too, the result holds the
\* converted primitive (the instance itself, if immutable), never undefined,
\* and no diagnostic event is emitted for that position.
C15_LeavesUntracked ==
  (op = "create" /\ res.st = "ok" /\ IsRef(arg) /\ heap[arg.n].kind \in {"Array", "Object"}) =>
    LET src == heap[arg.n]
        out == heap[res.val.n]
    IN \A i \in 1..Len(src.vals) :
         (IsRef(src.vals[i]) /\ heap[src.vals[i].n].kind \in {"Date", "RegExp"} \cup StoicKinds) =>
           /\ out.vals[i] = Converted(heap, src.vals[i])
           /\ \A k \in 1..Len(events) : events[k].currentPath # <<SlotLabel(src, i)>>

(***************************************************************************)
(* Inputs with shared references: a root record or sequence of one or two  *)
(* slots over a record or sequence t, a second object u (a record, a       *)
(* sequence or a failure) that may hold t, and a number.                   *)
(***************************************************************************)
\* the key under which an object of the caller gets its next value
NextKey(o) ==
  CASE o.kind = "Array" -> ToStr(Len(o.vals))
    [] o.kind = "Error" -> "cause"
    [] OTHER -> IF o.keys = <<>> THEN "self" ELSE "other"

\* obj[key] = v, arr.push(v) or err.cause = v
WithSlot(o, v) == [o EXCEPT !.keys = Append(@, NextKey(o)), !.vals = Append(@, v)]

RECURSIVE WithSlots(_, _)
WithSlots(o, vs) == IF vs = <<>> THEN o ELSE WithSlots(WithSlot(o, Head(vs)), Tail(vs))

RootId == Len(Realm) + 1
SharedId == Len(Realm) + 2
HolderId == Len(Realm) + 3

InitShare ==
  /\ \E rk \in {"Object", "Array"}, tk \in {"Object", "Array"}, uk \in {"Object", "Array", "Error"} :
     \E rs \in SeqsUpTo({Ref(SharedId), Ref(HolderId), Num(1)}, 2) \ {<<>>} :
     \E ts \in {<<>>, <<Num(1)>>}, us \in {<<>>, <<Ref(SharedId)>>, <<Num(1)>>} :
       heap = Realm \o <<WithSlots(NewObject(rk), rs), WithSlots(NewObject(tk), ts), WithSlots(NewObject(uk), us)>>
  /\ root = Ref(RootId)
  /\ phase = "build"
  /\ op = "none"
  /\ arg = Undef
  /\ args = NoArgs
  /\ res = NoResult
  /\ events = <<>>
  /\ iters = <<>>

NextShare == CallCreate

SpecShare == InitShare /\ [][NextShare]_vars

\* The positions below slot i of o: the slots of the object it holds, unless
\* an earlier slot of o holds that object too.
Below(h, o, i) ==
  LET v == o.vals[i]
  IN IF IsRef(v) /\ (\A k \in 1..(i - 1) : o.vals[k] # v)
     THEN [j \in 1..Len(h[v.n].vals) |->
             [path |-> <<SlotLabel(o, i), SlotLabel(h[v.n], j)>>, v |-> h[v.n].vals[j]]]
     ELSE <<>>

RECURSIVE PositionsFrom(_, _, _)
\* The positions of the input graph in traversal order (depth first, keys and
\* indices ascending), each with its path and the value it holds.
PositionsFrom(h, o, i) ==
  IF i > Len(o.vals) THEN <<>>
  ELSE <<[path |-> <<SlotLabel(o, i)>>, v |-> o.vals[i]]>> \o Below(h, o, i) \o PositionsFrom(h, o, i + 1)

\* out[label], for a result object
GetSlot(o, label) ==
  IF o.kind = "StoicArray"
  THEN (IF \E i \in 1..Len(o.vals) : ToStr(i - 1) = label
        THEN o.vals[CHOOSE i \in 1..Len(o.vals) : ToStr(i - 1) = label]
        ELSE Undef)
  ELSE Get(o, label)

RECURSIVE OutAt(_, _, _)
\* the value at a path of the result v
OutAt(h, v, path) ==
  IF path = <<>> THEN v
  ELSE IF ~IsRef(v) THEN Undef
  ELSE OutAt(h, GetSlot(h[v.n], Head(path)), Tail(path))

IsMutableContainer(h, v) == IsRef(v) /\ h[v.n].kind \in {"Object", "Array"}

\* out is the sanitized mirror of the record or sequence v
IsMirror(h, v, out) ==
  /\ IsRef(out) /\ out # v
  /\ h[out.n].kind = (IF h[v.n].kind = "Array" THEN "StoicArray" ELSE "StoicObject")
  /\ h[out.n].frozen
  /\ Len(h[out.n].vals) = Len(h[v.n].vals)

\* the events that report the position p
EventsAt(p) == {k \in 1..Len(events) : events[k].currentPath = p}

\* C16: the tracker is never popped within one top-level create.  For every
\* record or sequence of the input, the first position that holds it in
\* traversal order gets its sanitized mirror and no event; every later
\* position that holds the same reference gets undefined and exactly one
\* event, whose originalPath is the path of the first position.  Two distinct
\* references with equal contents are both first and are both sanitized.
C16_SharedReference ==
  (op = "create" /\ arg = Ref(RootId) /\ res.st = "ok") =>
    LET ps == PositionsFrom(heap, heap[RootId], 1)
        FirstOf(n) == CHOOSE m \in 1..n : ps[m].v = ps[n].v /\ \A k \in 1..(m - 1) : ps[k].v # ps[n].v
    IN \A n \in 1..Len(ps) :
         IsMutableContainer(heap, ps[n].v) =>
           IF FirstOf(n) = n
           THEN /\ IsMirror(heap, ps[n].v, OutAt(heap, res.val, ps[n].path))
                /\ EventsAt(ps[n].path) = {}
           ELSE /\ OutAt(heap, res.val, ps[n].path) = Undef
                /\ Cardinality(EventsAt(ps[n].path)) = 1
                /\ \A k \in EventsAt(ps[n].path) : events[k].originalPath = ps[FirstOf(n)].path

\* the elements of the sequence t, ordinary or immutable
ElementsOf(h, t) == h[t.n].vals

\* C17: s.concat(t) returns a new immutable Sequence of length
\* s.length + t.length that holds the elements of s in order followed by the
\* elements of t in order (sanitized, where they are mutable), and s is as it
\* was before.
C17_Concat ==
  [][(op' = "concat" /\ phase = "called") =>
       LET s == heap[arg'.n].vals
           t == ElementsOf(heap, args'.items[1])
       IN /\ heap'[arg'.n] = heap[arg'.n]
          /\ res'.st = "ok"
          /\ IsRef(res'.val)
          /\ res'.val # arg'
          /\ heap'[res'.val.n].kind = "StoicArray"
          /\ LET r == heap'[res'.val.n].vals
             IN /\ Len(r) = Len(s) + Len(t)
                /\ \A i \in 1..Len(s) : r[i] = s[i]
                /\ \A j \in 1..Len(t) : SanitizedArg(heap', t[j], r[Len(s) + j])]_vars

\* C18: s.values() completes without error on every immutable Sequence s, the
\* empty one too, and gives an iteration over the elements of s.
C18_Values ==
  op = "values" =>
    /\ res.st = "ok"
    /\ IsRef(res.val)
    /\ heap[res.val.n].kind = "Array Iterator"
    /\ heap[res.val.n].prim = arg

RECURSIVE SumOf(_)
SumOf(s) == IF s = <<>> THEN 0 ELSE Head(s).n + SumOf(Tail(s))

\* C19: reduce and reduceRight have the same contract but for the visiting
\* order: called with the same reducer and initial value, where the order does
\* not affect the accumulator, both succeed or both fail, and both give the
\* same result treated the same way (as the reducer left it, or sanitized);
\* each visits every element once (the sum of the elements is the result of
\* the summing reducer).
C19_FoldSymmetry ==
  [][(op' \in {"reduce", "reduceRight"} /\ phase = "called") =>
       LET twin == Delegate(heap, <<>>, arg', IF op' = "reduce" THEN "reduceRight" ELSE "reduce", args')
       IN /\ twin.st = res'.st
          /\ twin.val = res'.val
          /\ IsRef(res'.val) => twin.h[twin.val.n] = heap'[res'.val.n]
          /\ args'.cb = "sum" => res'.val = Num(SumOf(heap[arg'.n].vals))]_vars

WrapperKinds == {"Boolean", "Number", "String", "Symbol", "BigInt"}

\* C20: for a boxed primitive (a Boolean, Number, String, Symbol or BigInt
\* object) Stoic.create returns the primitive value inside it; the result is
\* a primitive, never an object or a function.
C20_Unboxes ==
  (op = "create" /\ IsRef(arg) /\ heap[arg.n].kind \in WrapperKinds) =>
    /\ res.st = "ok"
    /\ ~IsRef(res.val)
    /\ res.val = heap[arg.n].prim

====
